---- MODULE Spec2Model ----
(***************************************************************************)
(* Model of examples/annotate_deployment.py: a script that creates the     *)
(* Deployment "deploy-nginx", reads it, merges two annotations into the    *)
(* annotations it read, sends them as a patch, and reads the result.       *)
(* The remote control plane (the namespace "default") is shared with       *)
(* other clients, which may write at any point between two of the          *)
(* script's calls.                                                         *)
(***************************************************************************)
EXTENDS Naturals, Sequences, FiniteSets, TLC

VARIABLES
    cluster,               \* the Deployments of the namespace (remote state)
    pc,                    \* the script's position
    events,                \* remote calls and pauses, in the order they happened
    log,                   \* the lines written through logging
    new_annotations,       \* the new_annotations argument / local of main
    before,                \* deployment.metadata.annotations of main's first read
    existing_annotations,  \* local of annotate_deployment
    updated_annotations,   \* local of annotate_deployment
    patch_body,            \* local of annotate_deployment
    after                  \* updated_deployment.metadata.annotations of main

vars == <<cluster, pc, events, log, new_annotations, before,
          existing_annotations, updated_annotations, patch_body, after>>

----------------------------------------------------------------------------
(* Bounds *)

MaxExtraKeys == 1
MaxOtherWrites == 1

----------------------------------------------------------------------------
(* Annotation maps *)

KeyStr == "deployment.kubernetes.io/str"
KeyInt == "deployment.kubernetes.io/int"
ExtraKeyNames == <<"owner", "team", "rev">>
Keys == {KeyStr, KeyInt} \cup {ExtraKeyNames[i] : i \in 1..MaxExtraKeys}
Values == {"nginx", "5"}

EmptyMap == [k \in {} |-> "nginx"]
AnnotationMaps == UNION {[D -> Values] : D \in SUBSET Keys}

\* Python's None as the empty option, a present value as a singleton.
None == {}
Some(m) == {m}

\* `deployment.metadata.annotations or {}`: None and the empty dict are both
\* falsy and give {}.
OrEmpty(a) == IF a = None THEN EmptyMap
              ELSE LET m == CHOOSE x \in a : TRUE
                   IN  IF DOMAIN m = {} THEN EmptyMap ELSE m

\* A deliberately wrong merge: the existing value wins on a collision.
MergeExistingWins(E, N) ==
    [k \in DOMAIN E \cup DOMAIN N |-> IF k \in DOMAIN E THEN E[k] ELSE N[k]]

\* A deliberately wrong merge: symmetric difference of the keys.
MergeSymmetricDifference(E, N) ==
    [k \in (DOMAIN E \ DOMAIN N) \cup (DOMAIN N \ DOMAIN E) |->
        IF k \in DOMAIN N THEN N[k] ELSE E[k]]

\* {**existing_annotations, **new_annotations}
Merge(E, N) ==
    [k \in DOMAIN E \cup DOMAIN N |-> IF k \in DOMAIN N THEN N[k] ELSE E[k]]

\* main's new_annotations literal
NewAnnotations == (KeyStr :> "nginx") @@ (KeyInt :> "5")

----------------------------------------------------------------------------
(* The descriptor and the remote API *)

DeploymentName == "deploy-nginx"

\* create_deployment_object(): the V1Deployment. Its metadata holds the name
\* alone (no labels, no annotations); the labels are the pod template's.
create_deployment_object ==
    [api_version |-> "apps/v1",
     kind |-> "Deployment",
     metadata |-> [name |-> DeploymentName],
     spec |-> [replicas |-> 1,
               selector |-> [match_labels |-> [app |-> "nginx"]],
               template |->
                   [metadata |-> [labels |-> [app |-> "nginx"]],
                    spec |-> [containers |->
                        <<[name |-> "nginx-sample",
                           image |-> "nginx",
                           image_pull_policy |-> "IfNotPresent",
                           ports |-> <<[container_port |-> 80]>>]>>]]]]

\* A deliberately wrong patch body: the descriptor's spec is sent along.
PatchBodyWithSpec(updated) ==
    [metadata |-> [annotations |-> updated],
     spec |-> create_deployment_object.spec]

\* The resource the control plane stores for a descriptor: the descriptor's
\* fields, and the annotations of the resource.
Stored(obj, annotations) ==
    [f \in DOMAIN obj |->
        IF f = "metadata"
        THEN [name |-> obj.metadata.name, annotations |-> annotations]
        ELSE obj[f]]

\* A deliberately wrong patch body: only new_annotations is sent, not the merge.
PatchBodyNewOnly(updated) == [metadata |-> [annotations |-> new_annotations]]

\* patch_body = {"metadata": {"annotations": updated_annotations}}
PatchBody(updated) == [metadata |-> [annotations |-> updated]]

Find(name) == {r \in cluster : r.metadata.name = name}
Exists(name) == Find(name) # {}
TheResource(name) == CHOOSE r \in Find(name) : TRUE

\* What a read returns as metadata.annotations: None when there are none.
ReadAnnotations(r) ==
    IF DOMAIN r.metadata.annotations = {} THEN None
    ELSE Some(r.metadata.annotations)

\* The outcomes of a call, in the state it is made in. "Conflict",
\* "Validation", "NotFound" and "Unauthorized" are answers of the API, which
\* the client raises as ApiException; "Transport" is a connection that fails
\* before any answer, which the client raises as another exception.
CreateOutcomes(name) ==
    IF Exists(name) THEN {"Conflict", "Unauthorized", "Transport"}
    ELSE {"ok", "Validation", "Unauthorized", "Transport"}
ReadOutcomes(name) ==
    IF Exists(name) THEN {"ok", "Unauthorized", "Transport"}
    ELSE {"NotFound", "Unauthorized", "Transport"}
PatchOutcomes(name) ==
    IF Exists(name) THEN {"ok", "Conflict", "Unauthorized", "Transport"}
    ELSE {"NotFound", "Unauthorized", "Transport"}

\* `except client.exceptions.ApiException`: what the two handlers catch.
ApiException == {"Conflict", "Validation", "NotFound", "Unauthorized"}

\* Merge-patch of a string map: the keys of the patch are set, every other key
\* of the target keeps its value.
MergePatchMap(target, patch) ==
    [k \in DOMAIN target \cup DOMAIN patch |->
        IF k \in DOMAIN patch THEN patch[k] ELSE target[k]]

\* The resource after the control plane applied `body` to it as a merge-patch:
\* objects are merged field by field, down to the annotation keys.
ApplyPatch(r, body) ==
    LET metaOf(m) ==
            [f \in DOMAIN m \cup DOMAIN body.metadata |->
                IF f \notin DOMAIN body.metadata THEN m[f]
                ELSE IF f = "annotations" /\ f \in DOMAIN m
                     THEN MergePatchMap(m[f], body.metadata[f])
                     ELSE body.metadata[f]]
        specOf(s) ==
            [f \in DOMAIN s \cup DOMAIN body.spec |->
                IF f \in DOMAIN body.spec THEN body.spec[f] ELSE s[f]]
    IN  [f \in DOMAIN r |->
            IF f \notin DOMAIN body THEN r[f]
            ELSE IF f = "metadata" THEN metaOf(r[f])
            ELSE IF f = "spec" THEN specOf(r[f])
            ELSE body[f]]

Event(who, op, result) == [who |-> who, op |-> op, result |-> result]

OtherCount == Len(SelectSeq(events, LAMBDA e : e.who = "other"))
MainEvents == SelectSeq(events, LAMBDA e : e.who = "main")

----------------------------------------------------------------------------
(* The script *)

Locals == <<before, existing_annotations, updated_annotations, patch_body, after>>

\* create_deployment, made to try the create once more after an ApiException.
create_deployment_retrying ==
    /\ pc = "create"
    /\ \E out \in CreateOutcomes(DeploymentName) :
        /\ events' = events \o <<Event("main", "create", out)>>
                            \o (IF out \in ApiException
                                THEN <<Event("main", "create", out)>>
                                ELSE <<>>)
        /\ IF out = "ok"
           THEN /\ cluster' = cluster \cup {Stored(create_deployment_object, EmptyMap)}
                /\ log' = Append(log, "INFO: created")
                /\ pc' = "create_done"
           ELSE IF out \in ApiException
           THEN /\ cluster' = cluster
                /\ log' = Append(log, "ERROR: creating")
                /\ pc' = "create_done"
           ELSE /\ cluster' = cluster
                /\ log' = log
                /\ pc' = "crashed"
    /\ UNCHANGED <<new_annotations, Locals>>

\* create_deployment(apps_v1_api, deployment_obj, namespace): one create call.
\* An ApiException is logged and swallowed; any other exception leaves the
\* function and, nothing in main catching it, main.
create_deployment ==
    /\ pc = "create"
    /\ \E out \in CreateOutcomes(DeploymentName) :
        /\ events' = Append(events, Event("main", "create", out))
        /\ IF out = "ok"
           THEN /\ cluster' = cluster \cup {Stored(create_deployment_object, EmptyMap)}
                /\ log' = Append(log, "INFO: created")
                /\ pc' = "create_done"
           ELSE IF out \in ApiException
           THEN /\ cluster' = cluster
                /\ log' = Append(log, "ERROR: creating")
                /\ pc' = "create_done"
           ELSE /\ cluster' = cluster
                /\ log' = log
                /\ pc' = "crashed"
    /\ UNCHANGED <<new_annotations, Locals>>

\* time.sleep(2) after create_deployment, with the pause left out.
sleep_after_create_skipped ==
    /\ pc = "create_done"
    /\ pc' = "read1"
    /\ UNCHANGED <<cluster, events, log, new_annotations, Locals>>

\* time.sleep(2) after create_deployment
sleep_after_create ==
    /\ pc = "create_done"
    /\ pc' = "read1"
    /\ events' = Append(events, Event("main", "sleep", "ok"))
    /\ UNCHANGED <<cluster, log, new_annotations, Locals>>

\* main's first read_namespaced_deployment and the "Before annotation" line;
\* the call is outside any try, so any exception it raises ends main.
read_before ==
    /\ pc = "read1"
    /\ \E out \in ReadOutcomes(DeploymentName) :
        /\ events' = Append(events, Event("main", "read", out))
        /\ IF out = "ok"
           THEN /\ before' = ReadAnnotations(TheResource(DeploymentName))
                /\ log' = Append(log, "INFO: Before annotation")
                /\ new_annotations' = NewAnnotations
                /\ pc' = "annotate_read"
           ELSE /\ pc' = "crashed"
                /\ UNCHANGED <<before, log, new_annotations>>
    /\ UNCHANGED <<cluster, existing_annotations, updated_annotations,
                   patch_body, after>>

\* annotate_deployment, first half: the read, `or {}`, the merge and the patch
\* body. An ApiException from the read is logged and the function returns; any
\* other exception leaves the function and its caller.
annotate_deployment_read ==
    /\ pc = "annotate_read"
    /\ \E out \in ReadOutcomes(DeploymentName) :
        /\ events' = Append(events, Event("main", "annotate.read", out))
        /\ IF out = "ok"
           THEN /\ existing_annotations' =
                      OrEmpty(ReadAnnotations(TheResource(DeploymentName)))
                /\ updated_annotations' =
                      Merge(existing_annotations', new_annotations)
                /\ patch_body' = PatchBody(updated_annotations')
                /\ pc' = "annotate_patch"
                /\ log' = log
           ELSE /\ IF out \in ApiException
                   THEN log' = Append(log, "ERROR: annotating")
                        /\ pc' = "annotate_done"
                   ELSE log' = log /\ pc' = "crashed"
                /\ UNCHANGED <<existing_annotations, updated_annotations,
                               patch_body>>
    /\ UNCHANGED <<cluster, new_annotations, before, after>>

\* annotate_deployment, second half: the patch call. Success and ApiException
\* are logged and the function returns; any other exception leaves it.
annotate_deployment_patch ==
    /\ pc = "annotate_patch"
    /\ \E out \in PatchOutcomes(DeploymentName) :
        /\ events' = Append(events, Event("main", "annotate.patch", out))
        /\ IF out = "ok"
           THEN /\ cluster' = (cluster \ Find(DeploymentName)) \cup
                        {ApplyPatch(TheResource(DeploymentName), patch_body)}
                /\ log' = Append(log, "INFO: Annotations updated")
                /\ pc' = "annotate_done"
           ELSE IF out \in ApiException
           THEN /\ cluster' = cluster
                /\ log' = Append(log, "ERROR: annotating")
                /\ pc' = "annotate_done"
           ELSE /\ cluster' = cluster
                /\ log' = log
                /\ pc' = "crashed"
    /\ UNCHANGED <<new_annotations, Locals>>

\* time.sleep(2) after annotate_deployment
sleep_after_annotate ==
    /\ pc = "annotate_done"
    /\ pc' = "read2"
    /\ events' = Append(events, Event("main", "sleep", "ok"))
    /\ UNCHANGED <<cluster, log, new_annotations, Locals>>

\* main's last read_namespaced_deployment and the "After annotation" line;
\* outside any try, like the first.
read_after ==
    /\ pc = "read2"
    /\ \E out \in ReadOutcomes(DeploymentName) :
        /\ events' = Append(events, Event("main", "read", out))
        /\ IF out = "ok"
           THEN /\ after' = ReadAnnotations(TheResource(DeploymentName))
                /\ log' = Append(log, "INFO: After annotation")
                /\ pc' = "done"
           ELSE /\ pc' = "crashed"
                /\ UNCHANGED <<after, log>>
    /\ UNCHANGED <<cluster, new_annotations, before, existing_annotations,
                   updated_annotations, patch_body>>

\* The exit status of the process: an exception that leaves main (or, when
\* annotate_deployment is called on its own, leaves it to its caller) ends the
\* interpreter with status 1.
ExitStatus == IF pc = "crashed" THEN 1 ELSE 0
Terminated == pc \in {"done", "crashed"}

----------------------------------------------------------------------------
(* Other clients of the same namespace *)

OtherMayWrite ==
    /\ ~Terminated
    /\ OtherCount < MaxOtherWrites
    /\ Exists(DeploymentName)

WithAnnotations(r, m) == [r EXCEPT !.metadata.annotations = m]

other_set_annotation ==
    /\ OtherMayWrite
    /\ \E k \in Keys, v \in Values :
        LET r == TheResource(DeploymentName)
            m == r.metadata.annotations
        IN  /\ ~(k \in DOMAIN m /\ m[k] = v)
            /\ cluster' = (cluster \ {r}) \cup
                  {WithAnnotations(r, MergePatchMap(m, k :> v))}
    /\ events' = Append(events, Event("other", "write", "ok"))
    /\ UNCHANGED <<pc, log, new_annotations, Locals>>

other_remove_annotation ==
    /\ OtherMayWrite
    /\ LET r == TheResource(DeploymentName)
           m == r.metadata.annotations
       IN  \E k \in DOMAIN m :
            cluster' = (cluster \ {r}) \cup
                {WithAnnotations(r, [j \in DOMAIN m \ {k} |-> m[j]])}
    /\ events' = Append(events, Event("other", "write", "ok"))
    /\ UNCHANGED <<pc, log, new_annotations, Locals>>

other_delete ==
    /\ OtherMayWrite
    /\ cluster' = cluster \ Find(DeploymentName)
    /\ events' = Append(events, Event("other", "write", "ok"))
    /\ UNCHANGED <<pc, log, new_annotations, Locals>>

----------------------------------------------------------------------------
(* Specifications *)

\* A Deployment of the same name left by an earlier run or another client,
\* with annotations of its own and scaled away from the descriptor's replicas.
PreExisting(m) ==
    [Stored(create_deployment_object, m) EXCEPT !.spec.replicas = 3]

InitClusters == {{}} \cup {{PreExisting(m)} : m \in AnnotationMaps}

InitLocals ==
    /\ events = <<>>
    /\ log = <<>>
    /\ before = None
    /\ existing_annotations = EmptyMap
    /\ updated_annotations = EmptyMap
    /\ patch_body = EmptyMap
    /\ after = None

\* main() up to the call of create_deployment.
Init ==
    /\ cluster \in InitClusters
    /\ pc = "create"
    /\ new_annotations = EmptyMap
    /\ InitLocals

Next ==
    \/ create_deployment
    \/ sleep_after_create
    \/ read_before
    \/ annotate_deployment_read
    \/ annotate_deployment_patch
    \/ sleep_after_annotate
    \/ read_after
    \/ other_set_annotation
    \/ other_remove_annotation
    \/ other_delete

Spec == Init /\ [][Next]_vars

\* annotate_deployment called on its own, with any new_annotations, and called
\* a second time with the same argument; no other client writes.
AnnotateCalls ==
    Len(SelectSeq(events, LAMBDA e : e.op = "annotate.read"))

annotate_again ==
    /\ pc = "annotate_done"
    /\ AnnotateCalls < 2
    /\ pc' = "annotate_read"
    /\ UNCHANGED <<cluster, events, log, new_annotations, Locals>>

InitAnnotate ==
    /\ cluster \in InitClusters
    /\ pc = "annotate_read"
    /\ new_annotations \in AnnotationMaps
    /\ InitLocals

NextAnnotate ==
    \/ annotate_deployment_read
    \/ annotate_deployment_patch
    \/ annotate_again

SpecAnnotate == InitAnnotate /\ [][NextAnnotate]_vars

----------------------------------------------------------------------------
(* Properties *)

Last(s) == s[Len(s)]
RemoteAnnotations == TheResource(DeploymentName).metadata.annotations
Ops(s) == [i \in 1..Len(s) |-> s[i].op]
IsPrefix(s, t) == Len(s) <= Len(t) /\ \A i \in 1..Len(s) : s[i] = t[i]
PatchOkCount ==
    Len(SelectSeq(events, LAMBDA e : e.op = "annotate.patch" /\ e.result = "ok"))

\* A step of the script (not of another client) whose remote call failed.
MainCallFailed ==
    /\ pc' # pc
    /\ Len(events') = Len(events) + 1
    /\ Last(events').who = "main"
    /\ Last(events').result # "ok"

\* The step in which annotate_deployment's patch call succeeds.
PatchSucceeds ==
    /\ pc = "annotate_patch"
    /\ pc' = "annotate_done"
    /\ Last(events').result = "ok"

\* C1: in the patch annotate_deployment builds, the annotations have exactly the
\* keys of the resource's existing annotations E (none, if it has none) and of
\* new_annotations N; the value is N's on every key of N and E's on every key
\* only in E.
C1_MergeOverride ==
    pc = "annotate_patch" =>
        LET E == RemoteAnnotations
            N == new_annotations
            M == patch_body.metadata.annotations
        IN  /\ M = updated_annotations
            /\ DOMAIN M = DOMAIN E \cup DOMAIN N
            /\ \A k \in DOMAIN N : M[k] = N[k]
            /\ \A k \in DOMAIN E \ DOMAIN N : M[k] = E[k]

C1_Witness ==
    /\ pc = "annotate_patch"
    /\ \E k \in DOMAIN RemoteAnnotations \cap DOMAIN new_annotations :
          RemoteAnnotations[k] # new_annotations[k]
    /\ DOMAIN RemoteAnnotations \ DOMAIN new_annotations # {}
    /\ DOMAIN new_annotations \ DOMAIN RemoteAnnotations # {}

\* C1 for a resource without annotations: the read gives None and the patch
\* carries new_annotations alone.
C1_WitnessNone ==
    /\ pc = "annotate_patch"
    /\ DOMAIN RemoteAnnotations = {}
    /\ updated_annotations = new_annotations
    /\ DOMAIN new_annotations # {}

\* C2: merging new_annotations into an already merged map changes nothing, and
\* a second successful annotate_deployment with the same new_annotations, no
\* other client having written, leaves the remote resource as the first left it.
C2_MergeIdempotent ==
    /\ [](pc = "annotate_patch" =>
            Merge(updated_annotations, new_annotations) = updated_annotations)
    /\ [][PatchSucceeds /\ PatchOkCount >= 1 /\ OtherCount = 0
            => cluster' = cluster]_vars

C2_Witness ==
    /\ pc = "annotate_done"
    /\ PatchOkCount = 2
    /\ OtherCount = 0
    /\ \E k \in DOMAIN new_annotations : RemoteAnnotations[k] = new_annotations[k]
    /\ DOMAIN RemoteAnnotations \ DOMAIN new_annotations # {}

\* C3: the patch body annotate_deployment sends holds metadata.annotations and
\* nothing else, and a successful patch leaves every other field of the
\* resource (its spec with replicas, selector, pod template labels and image;
\* its name, kind and api version) as it was just before the patch.
C3_PatchTouchesOnlyAnnotations ==
    /\ [](pc = "annotate_patch" =>
            /\ DOMAIN patch_body = {"metadata"}
            /\ DOMAIN patch_body.metadata = {"annotations"})
    /\ [][PatchSucceeds =>
            LET r == TheResource(DeploymentName)
                q == CHOOSE x \in cluster' : x.metadata.name = DeploymentName
            IN  /\ Cardinality(cluster') = 1
                /\ DOMAIN q = DOMAIN r
                /\ \A f \in DOMAIN r \ {"metadata"} : q[f] = r[f]
                /\ DOMAIN q.metadata = DOMAIN r.metadata
                /\ \A f \in DOMAIN r.metadata \ {"annotations"} :
                      q.metadata[f] = r.metadata[f]
                /\ q.spec.replicas = r.spec.replicas
                /\ q.spec.selector = r.spec.selector
                /\ q.spec.template = r.spec.template]_vars

C3_Witness ==
    /\ pc = "annotate_done"
    /\ Last(events) = Event("main", "annotate.patch", "ok")
    /\ TheResource(DeploymentName).spec.replicas = 3
    /\ RemoteAnnotations = NewAnnotations

\* C5 as stated: after a successful patch the remote annotations equal the
\* merged map the patch carried, whatever other clients did since the read.
C5_RemoteEqualsMerged ==
    [][PatchSucceeds =>
        (CHOOSE x \in cluster' : x.metadata.name = DeploymentName)
            .metadata.annotations = updated_annotations]_vars

\* C5, amended: after a successful patch every key of the merged map is on the
\* remote resource with the merged value, and every other key that was on the
\* resource just before the patch is still there with its value; the remote
\* annotations equal the merged map exactly when the resource had no key
\* outside the merged map just before the patch.
C5_RemoteContainsMerged ==
    [][PatchSucceeds =>
        LET A == RemoteAnnotations
            B == (CHOOSE x \in cluster' : x.metadata.name = DeploymentName)
                    .metadata.annotations
            M == updated_annotations
        IN  /\ DOMAIN B = DOMAIN A \cup DOMAIN M
            /\ \A k \in DOMAIN M : B[k] = M[k]
            /\ \A k \in DOMAIN A \ DOMAIN M : B[k] = A[k]
            /\ (B = M) <=> (DOMAIN A \subseteq DOMAIN M)]_vars

\* Another client added a key between annotate_deployment's read and its
\* patch, and the patch succeeded.
C5_Witness ==
    /\ pc = "annotate_done"
    /\ Len(events) >= 3
    /\ Last(events) = Event("main", "annotate.patch", "ok")
    /\ events[Len(events) - 1].who = "other"
    /\ events[Len(events) - 2] = Event("main", "annotate.read", "ok")
    /\ RemoteAnnotations # updated_annotations

\* C6: when "deploy-nginx" already exists, the create call never succeeds and
\* the namespace still holds that one resource, unchanged; on the Conflict the
\* API answers (as on any ApiException) create_deployment logs the error and
\* returns to main, having issued that one create call; a run never issues a
\* second create.
C6_ConflictOnCreate ==
    /\ [](Len(SelectSeq(events, LAMBDA e : e.op = "create")) <= 1)
    /\ [][pc = "create" /\ pc' # pc /\ Exists(DeploymentName) =>
            /\ events' = Append(events, Last(events'))
            /\ Last(events').op = "create"
            /\ Last(events').result # "ok"
            /\ cluster' = cluster
            /\ Cardinality(Find(DeploymentName)) = 1
            /\ Last(events').result = "Conflict" =>
                  log' = Append(log, "ERROR: creating") /\ pc' = "create_done"]_vars

C6_Witness ==
    /\ pc = "create_done"
    /\ events = <<Event("main", "create", "Conflict")>>
    /\ log = <<"ERROR: creating">>
    /\ cluster = {PreExisting(KeyStr :> "5")}

\* C7: at the end of a run in which the reads and the patch succeeded and no
\* other client wrote, the final read shows str = "nginx" and int = "5", every
\* other key of the "Before annotation" read with its earlier value, and
\* exactly the two new annotations if there were none before.
C7_EndToEnd ==
    pc = "done" /\ OtherCount = 0 /\ PatchOkCount = 1 =>
        LET A == OrEmpty(after)
            B == OrEmpty(before)
        IN  /\ {KeyStr, KeyInt} \subseteq DOMAIN A
            /\ A[KeyStr] = "nginx"
            /\ A[KeyInt] = "5"
            /\ \A k \in DOMAIN B \ {KeyStr, KeyInt} :
                  k \in DOMAIN A /\ A[k] = B[k]
            /\ (before = None => after = Some(NewAnnotations))

C7_Witness ==
    /\ pc = "done"
    /\ OtherCount = 0
    /\ PatchOkCount = 1
    /\ before # None
    /\ DOMAIN OrEmpty(before) \ {KeyStr, KeyInt} # {}
    /\ KeyStr \in DOMAIN OrEmpty(before)
    /\ OrEmpty(before)[KeyStr] = "5"
    /\ OrEmpty(after)[KeyStr] = "nginx"

\* The end-to-end scenario on a fresh namespace: create succeeds, "Before
\* annotation" shows None and the final read exactly the two new annotations.
C7_WitnessFresh ==
    /\ pc = "done"
    /\ OtherCount = 0
    /\ events[1] = Event("main", "create", "ok")
    /\ before = None
    /\ after = Some(NewAnnotations)

\* The order of main's calls and pauses, with and without the patch.
FullOrder ==
    <<"create", "sleep", "read", "annotate.read", "annotate.patch", "sleep", "read">>
OrderWithoutPatch ==
    <<"create", "sleep", "read", "annotate.read", "sleep", "read">>

\* C9: main's calls and pauses happen one after the other in the order create,
\* pause, read, annotate's read, annotate's patch, pause, read (the patch left
\* out when annotate's read failed); create is issued once, the patch at most
\* once and only right after annotate's own read succeeded.
C9_CallOrder ==
    LET m == MainEvents
    IN  /\ \/ IsPrefix(Ops(m), FullOrder)
           \/ IsPrefix(Ops(m), OrderWithoutPatch)
        /\ \A i \in 1..Len(m) :
              m[i].op = "annotate.patch" =>
                  i > 1 /\ m[i - 1] = Event("main", "annotate.read", "ok")
        /\ pc # "create" => Len(m) >= 1 /\ m[1].op = "create"
        /\ pc \in {"create_done", "annotate_done"} => Last(m).op # "sleep"
        /\ pc \in {"read1", "read2"} => Last(m).op = "sleep"
        /\ pc = "done" => Len(m) \in {6, 7}

C9_Witness ==
    /\ pc = "done"
    /\ Ops(MainEvents) = FullOrder
    /\ OtherCount = 1

\* C10 as stated: when annotate_deployment's read fails (NotFound or a
\* transport failure), the function logs the error and returns without a patch
\* call and without changing the remote state; whether its read fails, its
\* patch fails or both succeed, the error does not leave annotate_deployment.
C10_AnnotateAllOrNothing ==
    /\ [][pc = "annotate_read" /\ MainCallFailed =>
            /\ Last(events').op = "annotate.read"
            /\ pc' = "annotate_done"
            /\ cluster' = cluster
            /\ log' = Append(log, "ERROR: annotating")]_vars
    /\ [][pc = "annotate_read" /\ pc' # pc =>
            pc' \in {"annotate_patch", "annotate_done"}]_vars
    /\ [][pc = "annotate_patch" /\ pc' # pc =>
            /\ pc' = "annotate_done"
            /\ Last(events').result # "ok" =>
                  cluster' = cluster /\ log' = Append(log, "ERROR: annotating")]_vars
    /\ [](pc = "annotate_done" /\ Last(MainEvents).op = "annotate.read"
            => Last(MainEvents).result # "ok")

\* C4 as stated: whichever remote call of main fails, the error is logged at
\* that step and main goes on to its next step, so that main always gets to
\* its final read and no API error ends it.
C4_ContinueOnError ==
    [][MainCallFailed =>
        /\ pc' # "crashed"
        /\ Len(log') = Len(log) + 1]_vars

\* C8 as stated: whichever remote calls fail, the process ends normally, with
\* exit status 0.
C8_NoFailureExit == Terminated => pc = "done" /\ ExitStatus = 0

====
